---- MODULE Spec2Model ----
(***************************************************************************)
(* XenoChain ledger (class XenoChain) and its gossip replication layer     *)
(* (class ConsensusNode) of src/Ledger.py.                                 *)
(*                                                                         *)
(* Every node owns one ledger (blocks, agent_blocks, hash_index), a peer   *)
(* list and a pending list.  Coroutines run on an event loop: a segment of *)
(* code between two awaits on a peer is one atomic action; the awaits on   *)
(* a peer (peer.receive_block, peer.get_recent_blocks) are the points      *)
(* where other calls interleave and where the call can fail.               *)
(***************************************************************************)
EXTENDS Integers, Sequences, FiniteSets, TLC

\* ---------------------------------------------------------------- bounds
Nodes == {"n1", "n2", "n3"}
Agents == {"a1", "a2"}
Scans == {"s1"}
\* The nodes whose ledger local callers append to directly, and the nodes
\* remote callers hand blocks to.
Appenders == {"n2"}
Receivers == {"n2"}
\* The peer registrations the callers of add_peer make: <<node, peer>>.
PeerLinks == {<<"n1", "n2">>, <<"n1", "n3">>}
\* The nodes that get peers: propose_block and sync_with_peers run on these.
Networked == {l[1] : l \in PeerLinks}
\* The agents that callers of propose_block propose for.
ProposeAgents == {"a1"}
MaxTime == 1          \* time.time() returns a value of 0..MaxTime
MaxBlocks == 3        \* distinct blocks constructed in the whole system
MaxEntries == 4       \* entries of all global sequences and pending lists together
MaxBacklog == 12      \* entries a node holds when the periodic caller gives up
SyncLimit == 100      \* peer.get_recent_blocks(100)

VARIABLES
    blocks,          \* blocks[n]: XenoChain.blocks of node n
    agent_blocks,    \* agent_blocks[n][a]: XenoChain.agent_blocks
    hash_index,      \* hash_index[n]: XenoChain.hash_index, hash -> block
    peers,           \* peers[n]: ConsensusNode.peers
    pending_blocks,  \* pending_blocks[n]: ConsensusNode.pending_blocks
    task             \* the propose/broadcast/sync coroutine in progress, or the last one

vars == <<blocks, agent_blocks, hash_index, peers, pending_blocks, task>>

\* ---------------------------------------------------------------- blocks
NoHash == <<>>        \* prev_hash = None

\* The hash of a block: a deterministic, collision-free function of its content.
ComputeHash(agent_id, scan, timestamp, prev_hash, dependencies) ==
    <<agent_id, scan, timestamp, prev_hash, dependencies>>

BlockRecord(agent_id, scan, timestamp, prev_hash, dependencies) ==
    [agent_id |-> agent_id, scan |-> scan, timestamp |-> timestamp,
     prev_hash |-> prev_hash, dependencies |-> dependencies,
     hash |-> ComputeHash(agent_id, scan, timestamp, prev_hash, dependencies)]

Last(s) == s[Len(s)]

\* dict[k] = v
Put(f, k, v) == [x \in DOMAIN f \cup {k} |-> IF x = k THEN v ELSE f[x]]

\* The state of one node as the methods see it.
NodeState(n) ==
    [blocks |-> blocks[n], agent_blocks |-> agent_blocks[n],
     hash_index |-> hash_index[n], pending_blocks |-> pending_blocks[n]]

\* ---------------------------------------------------------------- XenoChain
\* add_block that chains to the last block of the global sequence, whatever
\* its agent.
add_block_global_prev(st, agent_id, scan, now, dependencies) ==
    LET prev_hash == IF st.blocks # <<>> THEN Last(st.blocks).hash ELSE NoHash
        block == BlockRecord(agent_id, scan, now, prev_hash, dependencies)
    IN  [st |-> [st EXCEPT !.blocks = Append(@, block),
                           !.agent_blocks[agent_id] = Append(@, block),
                           !.hash_index = Put(@, block.hash, block)],
         ret |-> block.hash]

\* XenoChain.add_block: the new node state and the returned hash.
add_block(st, agent_id, scan, now, dependencies) ==
    LET prev_hash == IF st.agent_blocks[agent_id] # <<>>
                     THEN Last(st.agent_blocks[agent_id]).hash
                     ELSE NoHash
        block == BlockRecord(agent_id, scan, now, prev_hash, dependencies)
    IN  [st |-> [st EXCEPT !.blocks = Append(@, block),
                           !.agent_blocks[agent_id] = Append(@, block),
                           !.hash_index = Put(@, block.hash, block)],
         ret |-> block.hash]

\* XenoChain.get_history: blocks[-limit:], where -0 is 0 and the slice then
\* starts at the first block.
get_history(st, agent_id, limit) ==
    LET agent_chain == st.agent_blocks[agent_id]
        start == IF limit = 0 THEN 0
                 ELSE IF limit < Len(agent_chain) THEN Len(agent_chain) - limit
                 ELSE 0
    IN  IF agent_chain # <<>>
        THEN SubSeq(agent_chain, start + 1, Len(agent_chain))
        ELSE <<>>

\* The loop of get_entangled_states over the dependencies of a block.
RECURSIVE entangled_states(_, _)
entangled_states(st, dependencies) ==
    IF dependencies = <<>> THEN <<>>
    ELSE LET dep_hash == Head(dependencies)
             rest == entangled_states(st, Tail(dependencies))
         IN  IF dep_hash \in DOMAIN st.hash_index
             THEN <<[agent_id |-> st.hash_index[dep_hash].agent_id,
                     block_hash |-> st.hash_index[dep_hash].hash]>> \o rest
             ELSE rest

\* get_entangled_states that reads the agent's first block.
get_entangled_states_oldest(st, agent_id) ==
    IF st.agent_blocks[agent_id] = <<>>
    THEN <<>>
    ELSE entangled_states(st, Head(st.agent_blocks[agent_id]).dependencies)

\* XenoChain.get_entangled_states (the reconstructed state of an entry is a
\* function of the dependency block and is left out).
get_entangled_states(st, agent_id) ==
    IF st.agent_blocks[agent_id] = <<>>
    THEN <<>>
    ELSE entangled_states(st, Last(st.agent_blocks[agent_id]).dependencies)

\* ---------------------------------------------------------------- ConsensusNode
\* validate_block without the checks of prev_hash.
validate_block_any_prev(st, block) ==
    \/ block.hash \in DOMAIN st.hash_index
    \/ \A i \in 1..Len(block.dependencies) :
          block.dependencies[i] \in DOMAIN st.hash_index

\* validate_block that looks at the first dependency only.
validate_block_first_dep(st, block) ==
    IF block.hash \in DOMAIN st.hash_index
    THEN TRUE
    ELSE IF block.prev_hash # NoHash /\ block.prev_hash \notin DOMAIN st.hash_index
    THEN FALSE
    ELSE IF block.prev_hash # NoHash
            /\ st.hash_index[block.prev_hash].agent_id # block.agent_id
    THEN FALSE
    ELSE \A i \in 1..Len(block.dependencies) :
            i = 1 => block.dependencies[i] \in DOMAIN st.hash_index

\* validate_block that accepts a prev_hash only when it is the hash of the
\* agent's last block.
validate_block_last_only(st, block) ==
    IF block.hash \in DOMAIN st.hash_index
    THEN TRUE
    ELSE IF block.prev_hash # NoHash /\ block.prev_hash \notin DOMAIN st.hash_index
    THEN FALSE
    ELSE IF block.prev_hash # NoHash
            /\ \/ st.agent_blocks[block.agent_id] = <<>>
               \/ Last(st.agent_blocks[block.agent_id]).hash # block.prev_hash
    THEN FALSE
    ELSE \A i \in 1..Len(block.dependencies) :
            block.dependencies[i] \in DOMAIN st.hash_index

\* ConsensusNode.validate_block
validate_block(st, block) ==
    IF block.hash \in DOMAIN st.hash_index
    THEN TRUE
    ELSE IF block.prev_hash # NoHash /\ block.prev_hash \notin DOMAIN st.hash_index
    THEN FALSE
    ELSE IF block.prev_hash # NoHash
            /\ st.hash_index[block.prev_hash].agent_id # block.agent_id
    THEN FALSE
    ELSE \A i \in 1..Len(block.dependencies) :
            block.dependencies[i] \in DOMAIN st.hash_index

\* receive_block that leaves the per-agent sequence out.
receive_block_skips_agent(st, block) ==
    IF validate_block(st, block)
    THEN [st |-> [st EXCEPT !.blocks = Append(@, block),
                            !.hash_index = Put(@, block.hash, block),
                            !.pending_blocks =
                                SelectSeq(@, LAMBDA b : b.hash # block.hash)],
          ret |-> TRUE]
    ELSE [st |-> [st EXCEPT !.pending_blocks = Append(@, block)],
          ret |-> FALSE]

\* receive_block that indexes the block whatever validate_block says.
receive_block_unvalidated(st, block) ==
    [st |-> [st EXCEPT !.blocks = Append(@, block),
                       !.agent_blocks[block.agent_id] = Append(@, block),
                       !.hash_index = Put(@, block.hash, block),
                       !.pending_blocks =
                           SelectSeq(@, LAMBDA b : b.hash # block.hash)],
     ret |-> TRUE]

\* receive_block that moves a re-delivered block to the end of the global
\* sequence instead of appending it again.
receive_block_moves(st, block) ==
    IF validate_block(st, block)
    THEN [st |-> [st EXCEPT !.blocks =
                                Append(SelectSeq(@, LAMBDA b : b.hash # block.hash), block),
                            !.agent_blocks[block.agent_id] = Append(@, block),
                            !.hash_index = Put(@, block.hash, block),
                            !.pending_blocks =
                                SelectSeq(@, LAMBDA b : b.hash # block.hash)],
          ret |-> TRUE]
    ELSE [st |-> [st EXCEPT !.pending_blocks = Append(@, block)],
          ret |-> FALSE]

\* A sweep over pending blocks that indexes the ones that validate.
RECURSIVE retry_pending(_, _)
retry_pending(st, todo) ==
    IF todo = <<>> THEN st
    ELSE LET b == Head(todo)
         IN  IF validate_block(st, b)
             THEN retry_pending(
                      [st EXCEPT !.blocks = Append(@, b),
                                 !.agent_blocks[b.agent_id] = Append(@, b),
                                 !.hash_index = Put(@, b.hash, b),
                                 !.pending_blocks =
                                     SelectSeq(@, LAMBDA x : x.hash # b.hash)],
                      Tail(todo))
             ELSE retry_pending(st, Tail(todo))

\* receive_block that re-validates the pending blocks after an acceptance.
receive_block_retries(st, block) ==
    IF validate_block(st, block)
    THEN [st |-> retry_pending(
                     [st EXCEPT !.blocks = Append(@, block),
                                !.agent_blocks[block.agent_id] = Append(@, block),
                                !.hash_index = Put(@, block.hash, block),
                                !.pending_blocks =
                                    SelectSeq(@, LAMBDA b : b.hash # block.hash)],
                     SelectSeq(st.pending_blocks, LAMBDA b : b.hash # block.hash)),
          ret |-> TRUE]
    ELSE [st |-> [st EXCEPT !.pending_blocks = Append(@, block)],
          ret |-> FALSE]

\* ConsensusNode.receive_block: the new node state and the returned boolean.
receive_block(st, block) ==
    IF validate_block(st, block)
    THEN [st |-> [st EXCEPT !.blocks = Append(@, block),
                            !.agent_blocks[block.agent_id] = Append(@, block),
                            !.hash_index = Put(@, block.hash, block),
                            !.pending_blocks =
                                SelectSeq(@, LAMBDA b : b.hash # block.hash)],
          ret |-> TRUE]
    ELSE [st |-> [st EXCEPT !.pending_blocks = Append(@, block)],
          ret |-> FALSE]

\* sorted(seq, key=lambda b: b.timestamp, reverse=True): stable, descending.
RECURSIVE sorted_desc(_)
sorted_desc(seq) ==
    IF seq = <<>> THEN <<>>
    ELSE LET top == CHOOSE i \in 1..Len(seq) :
                       /\ \A j \in 1..Len(seq) : seq[j].timestamp <= seq[i].timestamp
                       /\ \A j \in 1..(i-1) : seq[j].timestamp < seq[i].timestamp
             rest == [k \in 1..(Len(seq)-1) |-> IF k < top THEN seq[k] ELSE seq[k+1]]
         IN  <<seq[top]>> \o sorted_desc(rest)

\* get_recent_blocks that returns the newest block only.
get_recent_blocks_newest(st, limit) ==
    LET s == sorted_desc(st.blocks)
    IN  SubSeq(s, 1, IF 1 < Len(s) THEN 1 ELSE Len(s))

\* ConsensusNode.get_recent_blocks
get_recent_blocks(st, limit) ==
    LET s == sorted_desc(st.blocks)
    IN  SubSeq(s, 1, IF limit < Len(s) THEN limit ELSE Len(s))

\* XenoChain.get_global_knowledge: one entry per block of the limit newest
\* entries of the global sequence (the reconstructed state of an entry is a
\* function of its block and is left out).
get_global_knowledge(st, limit) ==
    LET s == sorted_desc(st.blocks)
        recent_blocks == SubSeq(s, 1, IF limit < Len(s) THEN limit ELSE Len(s))
    IN  [i \in 1..Len(recent_blocks) |->
            [agent_id |-> recent_blocks[i].agent_id,
             block_hash |-> recent_blocks[i].hash,
             timestamp |-> recent_blocks[i].timestamp]]

\* The inner loop of sync_with_peers: receive_block on each fetched block.
RECURSIVE receive_all(_, _)
receive_all(st, peer_blocks) ==
    IF peer_blocks = <<>> THEN st
    ELSE receive_all(receive_block(st, Head(peer_blocks)).st, Tail(peer_blocks))

\* ---------------------------------------------------------------- state
\* No coroutine has run yet.
Idle == [node |-> "none", op |-> "none", status |-> "idle", hash |-> NoHash, i |-> 0]

Init ==
    /\ blocks = [n \in Nodes |-> <<>>]
    /\ agent_blocks = [n \in Nodes |-> [a \in Agents |-> <<>>]]
    /\ hash_index = [n \in Nodes |-> <<>>]
    /\ peers = [n \in Nodes |-> <<>>]
    /\ pending_blocks = [n \in Nodes |-> <<>>]
    /\ task = Idle

Range(s) == {s[i] : i \in 1..Len(s)}

\* Every block some node holds, accepted or pending.
AllBlocks ==
    UNION {Range(blocks[n]) \cup Range(pending_blocks[n]) : n \in Nodes}

SetNode(n, st) ==
    /\ blocks' = [blocks EXCEPT ![n] = st.blocks]
    /\ agent_blocks' = [agent_blocks EXCEPT ![n] = st.agent_blocks]
    /\ hash_index' = [hash_index EXCEPT ![n] = st.hash_index]
    /\ pending_blocks' = [pending_blocks EXCEPT ![n] = st.pending_blocks]

ledger == <<blocks, agent_blocks, hash_index, pending_blocks>>

\* The for loop over self.peers after the await on peer i came back: the
\* next peer of the (live) list, or the end of the loop and the return.
NextPeer(t) ==
    IF t.i < Len(peers[t.node])
    THEN [t EXCEPT !.i = t.i + 1]
    ELSE [t EXCEPT !.status = "returned", !.i = 0]

\* Entering the for loop over self.peers.
FirstPeer(n, op, h) ==
    IF peers[n] = <<>>
    THEN [node |-> n, op |-> op, status |-> "returned", hash |-> h, i |-> 0]
    ELSE [node |-> n, op |-> op, status |-> "awaiting", hash |-> h, i |-> 1]

Awaiting(ops) == task.status = "awaiting" /\ task.op \in ops

\* ---------------------------------------------------------------- actions
\* add_peer without the membership test.
add_peer_always_appends(n, peer) ==
    /\ peers' = [peers EXCEPT ![n] = Append(@, peer)]
    /\ UNCHANGED <<ledger, task>>

\* ConsensusNode.add_peer
add_peer(n, peer) ==
    /\ peers' = [peers EXCEPT ![n] =
                    IF peer \in Range(@) THEN @ ELSE Append(@, peer)]
    /\ UNCHANGED <<ledger, task>>

\* XenoChain.add_block called on the node's ledger.
AppendBlock(n, agent_id, scan, now, dependencies) ==
    LET r == add_block(NodeState(n), agent_id, scan, now, dependencies)
    IN  /\ SetNode(n, r.st)
        /\ UNCHANGED <<peers, task>>

\* ConsensusNode.propose_block up to its first await on a peer.
propose_block(n, agent_id, scan, now, dependencies) ==
    LET r == add_block(NodeState(n), agent_id, scan, now, dependencies)
    IN  /\ task.status # "awaiting"
        /\ SetNode(n, r.st)
        /\ task' = FirstPeer(n, "propose_block", r.ret)
        /\ UNCHANGED peers

\* await peer.receive_block(block) of broadcast_block comes back: the peer has
\* run receive_block, and the loop goes on.
Deliver ==
    /\ Awaiting({"propose_block"})
    /\ LET p == peers[task.node][task.i]
           block == hash_index[task.node][task.hash]
           r == receive_block(NodeState(p), block)
       IN  /\ SetNode(p, r.st)
           /\ task' = NextPeer(task)
    /\ UNCHANGED peers

\* await peer.receive_block(block) of broadcast_block raises (the peer is
\* unreachable): nothing catches it and it leaves broadcast_block and
\* propose_block.
DeliverFail ==
    /\ Awaiting({"propose_block"})
    /\ task' = [task EXCEPT !.status = "raised", !.i = 0]
    /\ UNCHANGED <<ledger, peers>>

\* ConsensusNode.receive_block called by a remote caller.
ReceiveBlock(n, block) ==
    LET r == receive_block(NodeState(n), block)
    IN  /\ SetNode(n, r.st)
        /\ UNCHANGED <<peers, task>>

\* ConsensusNode.sync_with_peers up to its first await on a peer.
sync_with_peers(n) ==
    /\ task.status # "awaiting"
    /\ task' = FirstPeer(n, "sync_with_peers", NoHash)
    /\ UNCHANGED <<ledger, peers>>

\* await peer.get_recent_blocks(100) comes back: every fetched block goes
\* through receive_block, and the loop goes on.
SyncStep ==
    /\ Awaiting({"sync_with_peers"})
    /\ LET p == peers[task.node][task.i]
           peer_blocks == get_recent_blocks(NodeState(p), SyncLimit)
           st == receive_all(NodeState(task.node), peer_blocks)
       IN  /\ SetNode(task.node, st)
           /\ task' = NextPeer(task)
    /\ UNCHANGED peers

\* await peer.get_recent_blocks(100) raises: nothing catches it.
SyncFail ==
    /\ Awaiting({"sync_with_peers"})
    /\ task' = [task EXCEPT !.status = "raised", !.i = 0]
    /\ UNCHANGED <<ledger, peers>>

\* ---------------------------------------------------------------- bounded runs
RECURSIVE SumOver(_, _)
SumOver(f, S) ==
    IF S = {} THEN 0
    ELSE LET x == CHOOSE y \in S : TRUE IN f[x] + SumOver(f, S \ {x})

Size(st) == Len(st.blocks) + Len(st.pending_blocks)

Entries == SumOver([n \in Nodes |-> Size(NodeState(n))], Nodes)

\* A call that takes node n to state st fits the bound on the entries.
Fits(total, n, st) == total - Size(NodeState(n)) + Size(st) <= MaxEntries

\* Every hash some node holds.
AllHashes == {b.hash : b \in AllBlocks}

\* Another distinct block fits the bound, or the hash is one that exists.
Room(h) == h \in AllHashes \/ Cardinality(AllHashes) < MaxBlocks

\* The values time.time() can return now: it does not go back behind the
\* timestamp of a block that exists.
Times == {t \in 0..MaxTime : \A b \in AllBlocks : b.timestamp <= t}

\* The dependencies argument of a call: none, or one hash known somewhere.
DepChoices == {<<>>} \cup {<<h>> : h \in AllHashes}

\* The blocks a remote caller hands to receive_block: a block some node holds,
\* or a new block with any known prev_hash.
RemoteBlocks ==
    AllBlocks \cup
    {BlockRecord(a, s, t, prev, <<>>) :
        a \in Agents, s \in Scans, t \in Times, prev \in AllHashes}

\* A caller appends a block to the ledger of a node.
CallAppendBlock ==
    \E n \in Appenders, a \in Agents, s \in Scans, t \in Times, d \in DepChoices :
        /\ Entries < MaxEntries
        /\ Room(add_block(NodeState(n), a, s, t, d).ret)
        /\ AppendBlock(n, a, s, t, d)

\* A caller proposes a block on a node that has peers.
CallProposeBlock ==
    \E n \in Networked, a \in ProposeAgents, s \in Scans, t \in Times :
        /\ Entries < MaxEntries
        /\ Room(add_block(NodeState(n), a, s, t, <<>>).ret)
        /\ propose_block(n, a, s, t, <<>>)

CallAddPeer == \E l \in PeerLinks : add_peer(l[1], l[2])

CallReceiveBlock ==
    \E n \in Receivers : \E b \in RemoteBlocks :
        /\ Fits(Entries, n, receive_block(NodeState(n), b).st)
        /\ Room(b.hash)
        /\ ReceiveBlock(n, b)

CallSyncWithPeers == \E n \in Networked : sync_with_peers(n)

PeerReceives ==
    /\ Awaiting({"propose_block"})
    /\ LET p == peers[task.node][task.i]
       IN  Fits(Entries, p,
                receive_block(NodeState(p), hash_index[task.node][task.hash]).st)
    /\ Deliver

PeerAnswers ==
    /\ Awaiting({"sync_with_peers"})
    /\ Fits(Entries, task.node,
            receive_all(NodeState(task.node),
                        get_recent_blocks(NodeState(peers[task.node][task.i]), SyncLimit)))
    /\ SyncStep

Next ==
    \/ CallAddPeer
    \/ CallAppendBlock
    \/ CallProposeBlock
    \/ PeerReceives
    \/ DeliverFail
    \/ CallReceiveBlock
    \/ CallSyncWithPeers
    \/ PeerAnswers
    \/ SyncFail

Spec == Init /\ [][Next]_vars

\* A ledger that only XenoChain.add_block mutates.
LedgerNext == CallAppendBlock

SpecLedger == Init /\ [][LedgerNext]_vars

\* ---------------------------------------------------------------- periodic sync
\* A peer of node n holds a block that n has not accepted.
Behind(n) ==
    \E j \in 1..Len(peers[n]) : ~(DOMAIN hash_index[peers[n][j]] \subseteq DOMAIN hash_index[n])

\* The periodic caller of sync_with_peers: it calls while the node is behind
\* a peer (up to MaxBacklog entries held), and a bounded number of times
\* when it is not.
CallSyncPeriodic ==
    \E n \in Networked :
        /\ \/ Behind(n) /\ Size(NodeState(n)) < MaxBacklog
           \/ ~Behind(n) /\ Len(blocks[n]) < MaxEntries
        /\ sync_with_peers(n)

\* await peer.get_recent_blocks(100) on peer p comes back.
PeerAnswersSync(p) ==
    /\ Awaiting({"sync_with_peers"})
    /\ peers[task.node][task.i] = p
    /\ SyncStep

SyncNext ==
    \/ CallAddPeer
    \/ CallAppendBlock
    \/ CallSyncPeriodic
    \/ \E p \in Nodes : PeerAnswersSync(p)
    \/ SyncFail

\* The await on peer p is outstanding: PeerAnswersSync(p) is enabled.
AwaitingAnswer(p) ==
    /\ Awaiting({"sync_with_peers"})
    /\ peers[task.node][task.i] = p

\* The periodic caller keeps calling, and a peer that is asked again and
\* again answers again and again: strong fairness of PeerAnswersSync(p),
\* SF_vars(PeerAnswersSync(p)), written with its enabling condition.
SpecSync ==
    /\ Init
    /\ [][SyncNext]_vars
    /\ WF_vars(CallSyncPeriodic)
    /\ \A p \in Nodes :
          ([]<>AwaitingAnswer(p)) => []<><<PeerAnswersSync(p)>>_vars

\* ---------------------------------------------------------------- entangled blocks
\* A hash that no block of any ledger has.
ForeignHash == ComputeHash("a1", "s1", MaxTime + 1, NoHash, <<>>)

\* The dependencies argument of a call: up to two hashes, known or not.
DepLists ==
    LET known == AllHashes \cup {ForeignHash}
    IN  {<<>>} \cup {<<h>> : h \in known} \cup (known \X known)

\* A caller appends a block with any such dependencies.
CallAppendEntangled ==
    \E n \in Appenders, a \in Agents, s \in Scans, t \in Times, d \in DepLists :
        /\ Entries < MaxEntries
        /\ Room(add_block(NodeState(n), a, s, t, d).ret)
        /\ AppendBlock(n, a, s, t, d)

EntangledNext == CallAppendEntangled

SpecEntangled == Init /\ [][EntangledNext]_vars

\* ---------------------------------------------------------------- claims
Indexed(n) == DOMAIN hash_index[n]

\* The node n has run receive_block(block) in this step.
Received(n, block) == SetNode(n, receive_block(NodeState(n), block).st)

\* C1: re-delivering a block whose hash is already in the hash index through
\* ReceiveBlock returns true and leaves the global sequence, every per-agent
\* sequence and the hash index as they were.
C1_RedeliveryLeavesIndexes ==
    [][\A n \in Nodes : \A b \in AllBlocks :
          (b.hash \in Indexed(n) /\ ReceiveBlock(n, b))
          => /\ receive_block(NodeState(n), b).ret
             /\ UNCHANGED <<blocks, agent_blocks, hash_index>>]_vars

\* C2: on a ledger mutated only by AppendBlock, every per-agent sequence is a
\* hash chain: block 0 has an empty prevHash and the prevHash of block i is
\* the hash of block i-1.
C2_AgentChainLinked ==
    \A n \in Nodes : \A a \in Agents :
        \A i \in 1..Len(agent_blocks[n][a]) :
            agent_blocks[n][a][i].prev_hash =
                IF i = 1 THEN NoHash ELSE agent_blocks[n][a][i-1].hash

\* Two agents' appends are interleaved on one ledger and one chain has a link.
C2_Witness ==
    \E n \in Nodes : \E a \in Agents :
        /\ Len(agent_blocks[n][a]) >= 2
        /\ Len(blocks[n]) >= 3
        /\ blocks[n][2].agent_id # a

\* C3: every dependency hash of every accepted block resolves to a block of
\* the same node's hash index.
C3_DependenciesResolve ==
    \A n \in Nodes : \A h \in Indexed(n) :
        \A i \in 1..Len(hash_index[n][h].dependencies) :
            hash_index[n][h].dependencies[i] \in Indexed(n)

\* C4: every indexed block with a non-empty prevHash has that prevHash in the
\* same node's hash index, and the block it names has the same agentID.
C4_PrevHashResolves ==
    \A n \in Nodes : \A h \in Indexed(n) :
        LET b == hash_index[n][h]
        IN  b.prev_hash # NoHash
            => /\ b.prev_hash \in Indexed(n)
               /\ hash_index[n][b.prev_hash].agent_id = b.agent_id

\* A node that appends nothing itself holds a chained block it got from a peer.
C4_Witness ==
    \E n \in Nodes \ (Appenders \cup Networked) :
        \E h \in Indexed(n) : hash_index[n][h].prev_hash # NoHash

\* C5: the three indexes agree in every state: the hash index holds exactly
\* the blocks of the global sequence, each under its own hash, and every
\* per-agent sequence is the global sequence filtered by that agent, in order.
C5_IndexesConsistent ==
    \A n \in Nodes :
        /\ {hash_index[n][h] : h \in Indexed(n)} = Range(blocks[n])
        /\ \A h \in Indexed(n) : hash_index[n][h].hash = h
        /\ \A a \in Agents :
              agent_blocks[n][a] = SelectSeq(blocks[n], LAMBDA b : b.agent_id = a)
        /\ \A b \in Range(blocks[n]) : b \in Range(agent_blocks[n][b.agent_id])

\* A node holds blocks of both agents, appended locally and received, while a
\* broadcast is suspended.
C5_Witness ==
    /\ task.status = "awaiting"
    /\ \E n \in Receivers :
          /\ \A a \in Agents : agent_blocks[n][a] # <<>>
          /\ Len(blocks[n]) >= 3

\* The blocks ValidateBlock is asked about: every block some node holds, and
\* every block with any agent, any known prev_hash or none, and no, one or two
\* different known dependencies.
CandidateBlocks ==
    AllBlocks \cup
    {BlockRecord(a, s, 0, prev, deps) :
        a \in Agents, s \in Scans, prev \in {NoHash} \cup AllHashes,
        deps \in DepChoices \cup {p \in AllHashes \X AllHashes : p[1] # p[2]}}

\* C6: ValidateBlock accepts exactly when the hash is already indexed, or when
\* the prevHash is empty or names an indexed block of the same agent and
\* every dependency is indexed; it reads the hash index only.
C6_ValidateBlockDecides ==
    \A n \in Nodes : \A b \in CandidateBlocks :
        validate_block(NodeState(n), b) =
            (\/ b.hash \in Indexed(n)
             \/ /\ \/ b.prev_hash = NoHash
                   \/ /\ b.prev_hash \in Indexed(n)
                      /\ hash_index[n][b.prev_hash].agent_id = b.agent_id
                /\ Range(b.dependencies) \subseteq Indexed(n))

\* One node state in which ValidateBlock accepts an indexed block, accepts a
\* new block, and rejects for a missing prevHash, for a prevHash of another
\* agent and for a missing dependency.
C6_Witness ==
    \E n \in Nodes :
        /\ \E b \in CandidateBlocks : b.hash \in Indexed(n)
        /\ \E b \in CandidateBlocks :
              /\ b.hash \notin Indexed(n)
              /\ b.prev_hash # NoHash
              /\ b.dependencies # <<>>
              /\ validate_block(NodeState(n), b)
        /\ \E b \in CandidateBlocks :
              /\ b.prev_hash # NoHash
              /\ b.prev_hash \notin Indexed(n)
              /\ ~validate_block(NodeState(n), b)
        /\ \E b \in CandidateBlocks :
              /\ b.prev_hash \in Indexed(n)
              /\ hash_index[n][b.prev_hash].agent_id # b.agent_id
              /\ ~validate_block(NodeState(n), b)
        /\ \E b \in CandidateBlocks :
              /\ b.prev_hash = NoHash
              /\ Len(b.dependencies) = 2
              /\ b.dependencies[1] \in Indexed(n)
              /\ b.dependencies[2] \notin Indexed(n)
              /\ ~validate_block(NodeState(n), b)

\* C7: when ReceiveBlock(b) fails validation it returns false, leaves the
\* global sequence, the per-agent sequences and the hash index as they were,
\* and b is in the pending list afterwards.
C7_RejectedBlockIsPending ==
    [][\A n \in Nodes : \A b \in RemoteBlocks :
          (Received(n, b) /\ ~validate_block(NodeState(n), b))
          => /\ receive_block(NodeState(n), b).ret = FALSE
             /\ UNCHANGED <<blocks, agent_blocks, hash_index>>
             /\ b \in Range(pending_blocks'[n])]_vars

\* A node has rejected a block from a remote caller and a block a peer
\* broadcast.
C7_Witness ==
    /\ \E n \in Receivers : pending_blocks[n] # <<>>
    /\ \E n \in Nodes \ Receivers : pending_blocks[n] # <<>>

\* C8: the pending list holds no two entries with the same hash.
C8_PendingDeduplicated ==
    \A n \in Nodes :
        \A i \in 1..Len(pending_blocks[n]) : \A j \in 1..Len(pending_blocks[n]) :
            pending_blocks[n][i].hash = pending_blocks[n][j].hash => i = j

\* The hashes of the pending list of node n.
PendingHashes(pending) == {b.hash : b \in Range(pending)}

\* C9: a failing peer does not keep BroadcastBlock from delivering to every
\* other current peer, nor SyncWithPeers from processing the blocks of the
\* remaining peers, and the failure leaves the node's own indexes and pending
\* list as they were.
C9_PeerFailureIsolated ==
    [][(task.status = "awaiting" /\ task'.status = "raised")
       => /\ UNCHANGED <<blocks[task.node], agent_blocks[task.node],
                         hash_index[task.node], pending_blocks[task.node]>>
          /\ task.op = "propose_block"
             => \A j \in 1..Len(peers[task.node]) :
                   j # task.i
                   => LET p == peers[task.node][j]
                      IN  \/ task.hash \in DOMAIN hash_index'[p]
                          \/ task.hash \in PendingHashes(pending_blocks'[p])
          /\ task.op = "sync_with_peers"
             => \A j \in (task.i + 1)..Len(peers[task.node]) :
                   \A b \in Range(blocks[peers[task.node][j]]) :
                      \/ b.hash \in DOMAIN hash_index'[task.node]
                      \/ b.hash \in PendingHashes(pending_blocks'[task.node])]_vars

\* C10: ProposeBlock returns the hash of the new block, whatever the peers
\* do, and that block is in the node's hash index, global sequence and
\* per-agent sequence.
C10_ProposeReturnsHash ==
    (task.op = "propose_block" /\ task.status # "awaiting")
    => /\ task.status = "returned"
       /\ task.hash \in Indexed(task.node)
       /\ hash_index[task.node][task.hash] \in Range(blocks[task.node])
       /\ \E a \in Agents :
             hash_index[task.node][task.hash] \in Range(agent_blocks[task.node][a])

IsPrefix(s, t) == Len(s) <= Len(t) /\ SubSeq(t, 1, Len(s)) = s

\* C11: the ledger is append-only: in every step the global sequence and each
\* per-agent sequence of a node are prefixes of what they are afterwards, no
\* hash leaves the hash index, and an indexed hash keeps its block content.
C11_AppendOnly ==
    [][\A n \in Nodes :
          /\ IsPrefix(blocks[n], blocks'[n])
          /\ \A a \in Agents : IsPrefix(agent_blocks[n][a], agent_blocks'[n][a])
          /\ \A h \in Indexed(n) :
                /\ h \in DOMAIN hash_index'[n]
                /\ hash_index'[n][h] = hash_index[n][h]]_vars

\* A node holds at least two blocks and has accepted one of them again.
C11_Witness ==
    \E n \in Nodes :
        /\ Cardinality(Indexed(n)) >= 2
        /\ Len(blocks[n]) > Cardinality(Indexed(n))

\* Every prev_hash and dependency of the blocks of node p is in p's index.
Resolves(p) ==
    \A h \in Indexed(p) :
        /\ hash_index[p][h].prev_hash # NoHash => hash_index[p][h].prev_hash \in Indexed(p)
        /\ Range(hash_index[p][h].dependencies) \subseteq Indexed(p)

\* C12: under repeated SyncWithPeers, once no new block is proposed, a node
\* whose peer holds at most 100 blocks that all resolve in the peer's index
\* eventually has every block of the peer's hash index in its own, for good.
C12_SyncReconciles ==
    <>[](\A n \in Nodes : \A j \in 1..Len(peers[n]) :
            (Len(blocks[peers[n][j]]) <= SyncLimit /\ Resolves(peers[n][j]))
            => Indexed(peers[n][j]) \subseteq Indexed(n))

\* A node has caught up with a peer whose chain has a block newer than its
\* predecessor, and has been through more than one round to get there.
C12_Witness ==
    \E n \in Nodes : \E j \in 1..Len(peers[n]) :
        LET p == peers[n][j]
        IN  /\ Indexed(p) \subseteq Indexed(n)
            /\ Len(blocks[n]) > Cardinality(Indexed(n))
            /\ \E h \in Indexed(p) :
                  /\ hash_index[p][h].prev_hash # NoHash
                  /\ hash_index[p][hash_index[p][h].prev_hash].timestamp
                        < hash_index[p][h].timestamp

\* The peers the suspended broadcast still delivers to, in order.
ToDeliver(ps, t) == SubSeq(ps[t.node], t.i, Len(ps[t.node]))

\* C13: BroadcastBlock fans out over the peers registered when it started: an
\* AddPeer that interleaves with a broadcast suspended on a peer leaves the
\* peers the broadcast still delivers to as they were.
C13_BroadcastSnapshot ==
    [][(Awaiting({"propose_block"}) /\ peers' # peers)
       => ToDeliver(peers', task') = ToDeliver(peers, task)]_vars

NoDuplicates(s) == \A i \in 1..Len(s) : \A j \in 1..Len(s) : s[i] = s[j] => i = j

\* C14: AddPeer registers a peer at most once: after every step each peer
\* list holds each peer identity once, no peer has left a list, and the peer
\* passed to an AddPeer call is in the list.
C14_PeerRegisteredOnce ==
    [][\A n \in Nodes :
          /\ NoDuplicates(peers'[n])
          /\ Range(peers[n]) \subseteq Range(peers'[n])
          /\ \A p \in Nodes : add_peer(n, p) => p \in Range(peers'[n])]_vars

\* A node has registered two peers, the second one during a broadcast.
C14_Witness ==
    \E n \in Nodes :
        /\ Len(peers[n]) = 2
        /\ task.node = n
        /\ task.status = "awaiting"
        /\ task.i = 1

\* Block b is new to node n and chains to an indexed block of its agent that
\* is not the agent's last block.
Forks(n, b) ==
    /\ b.hash \notin Indexed(n)
    /\ b.prev_hash \in Indexed(n)
    /\ hash_index[n][b.prev_hash].agent_id = b.agent_id
    /\ Last(agent_blocks[n][b.agent_id]).hash # b.prev_hash
    /\ Range(b.dependencies) \subseteq Indexed(n)

\* C15: forks are accepted: ReceiveBlock accepts a block whose prevHash is
\* indexed for the same agent even when that prevHash is not the hash of the
\* agent's last block, and the block joins the hash index and the per-agent
\* sequence.
C15_ForkAccepted ==
    [][\A n \in Nodes : \A b \in RemoteBlocks :
          (Received(n, b) /\ Forks(n, b))
          => /\ b.hash \in DOMAIN hash_index'[n]
             /\ Last(agent_blocks'[n][b.agent_id]) = b
             /\ pending_blocks'[n] = SelectSeq(pending_blocks[n], LAMBDA x : x.hash # b.hash)]_vars

\* A node's hash index and per-agent sequence hold two different blocks of
\* one agent with the same prevHash.
C15_Witness ==
    \E n \in Nodes : \E g \in Indexed(n) : \E h \in Indexed(n) :
        /\ g # h
        /\ hash_index[n][g].agent_id = hash_index[n][h].agent_id
        /\ hash_index[n][g].prev_hash = hash_index[n][h].prev_hash
        /\ hash_index[n][g].prev_hash # NoHash
        /\ {hash_index[n][g], hash_index[n][h]}
              \subseteq Range(agent_blocks[n][hash_index[n][g].agent_id])

\* C16: no automatic retry of pending blocks: when ReceiveBlock(b) or a local
\* ProposeBlock accepts a block, that block is the only one newly indexed and
\* every pending block with another hash stays in the pending list, in place.
C16_NoPendingRetry ==
    [][\A n \in Nodes :
          /\ \A b \in RemoteBlocks :
                (Received(n, b) /\ validate_block(NodeState(n), b))
                => /\ DOMAIN hash_index'[n] = Indexed(n) \cup {b.hash}
                   /\ blocks'[n] = Append(blocks[n], b)
                   /\ pending_blocks'[n] =
                         SelectSeq(pending_blocks[n], LAMBDA x : x.hash # b.hash)
          /\ \A a \in Agents : \A s \in Scans : \A t \in 0..MaxTime :
                propose_block(n, a, s, t, <<>>)
                => /\ DOMAIN hash_index'[n] =
                         Indexed(n) \cup {add_block(NodeState(n), a, s, t, <<>>).ret}
                   /\ Len(blocks'[n]) = Len(blocks[n]) + 1
                   /\ pending_blocks'[n] = pending_blocks[n]]_vars

\* A pending block that is not indexed has all its prerequisites indexed since
\* a later acceptance, and is still pending.
C16_Witness ==
    \E n \in Nodes : \E b \in Range(pending_blocks[n]) :
        /\ b.hash \notin Indexed(n)
        /\ b.prev_hash \in Indexed(n)
        /\ validate_block(NodeState(n), b)

\* The limit arguments of the queries.
Limits == 0..(MaxEntries + 1)

\* C17: GetGlobalKnowledge(limit) returns min(limit, number of accepted
\* blocks) entries: the accepted blocks with the largest timestamps, each
\* once, in descending timestamp order.
C17_GlobalKnowledgeNewest ==
    \A n \in Nodes : \A limit \in Limits :
        LET k == get_global_knowledge(NodeState(n), limit)
            got == {k[i].block_hash : i \in 1..Len(k)}
        IN  /\ Len(k) = IF limit < Cardinality(Indexed(n))
                        THEN limit ELSE Cardinality(Indexed(n))
            /\ got \subseteq Indexed(n)
            /\ \A i \in 1..Len(k) : \A j \in 1..Len(k) :
                  /\ k[i].block_hash = k[j].block_hash => i = j
                  /\ i < j => k[i].timestamp >= k[j].timestamp
            /\ \A i \in 1..Len(k) :
                  /\ k[i].agent_id = hash_index[n][k[i].block_hash].agent_id
                  /\ k[i].timestamp = hash_index[n][k[i].block_hash].timestamp
                  /\ \A h \in Indexed(n) \ got :
                        hash_index[n][h].timestamp <= k[i].timestamp

\* C18: GetHistory(agentID, limit) returns, for every limit >= 0, the last
\* min(limit, chain length) blocks of the agent's sequence, oldest first, and
\* the empty sequence for an agent without blocks.
C18_HistoryLastBlocks ==
    \A n \in Nodes : \A a \in Agents : \A limit \in Limits :
        LET agent_chain == agent_blocks[n][a]
            count == IF limit < Len(agent_chain) THEN limit ELSE Len(agent_chain)
        IN  get_history(NodeState(n), a, limit) =
                SubSeq(agent_chain, Len(agent_chain) - count + 1, Len(agent_chain))

\* C19: GetEntangledStates(agentID) returns one entry per dependency hash of
\* the agent's latest block that is in the hash index, in dependency order,
\* with the dependency block's agentID and hash; hashes that are not indexed
\* are left out, and the result is empty when the agent has no block.
C19_EntangledResolvable ==
    \A n \in Nodes : \A a \in Agents :
        LET r == get_entangled_states(NodeState(n), a)
        IN  IF agent_blocks[n][a] = <<>>
            THEN r = <<>>
            ELSE LET present == SelectSeq(Last(agent_blocks[n][a]).dependencies,
                                          LAMBDA h : h \in Indexed(n))
                 IN  /\ Len(r) = Len(present)
                     /\ \A i \in 1..Len(r) :
                           /\ r[i].block_hash = present[i]
                           /\ r[i].agent_id = hash_index[n][present[i]].agent_id

\* An agent's latest block, not its first, names a hash that is not indexed
\* and then one that is, on a ledger that holds blocks of another agent too.
C19_Witness ==
    \E n \in Nodes : \E a \in Agents : \E c \in Agents \ {a} :
        /\ Len(agent_blocks[n][a]) >= 2
        /\ Len(Last(agent_blocks[n][a]).dependencies) = 2
        /\ Last(agent_blocks[n][a]).dependencies[1] \notin Indexed(n)
        /\ Last(agent_blocks[n][a]).dependencies[2] \in Indexed(n)
        /\ Len(get_entangled_states(NodeState(n), a)) = 1
        /\ agent_blocks[n][c] # <<>>

\* C20: no block is both pending and accepted: no hash of a node's hash index
\* is the hash of an entry of its pending list.
C20_PendingNotIndexed ==
    \A n \in Nodes : Indexed(n) \cap PendingHashes(pending_blocks[n]) = {}

====
